---- MODULE Spec2Model ----
(***************************************************************************)
(* hamster-cache: an in-process key-value cache with a capacity bound, a   *)
(* per-item time-to-live and an eviction strategy ('age' or 'lru').        *)
(*                                                                         *)
(* The state is the Cache object of src/src/Cache.ts: the frozen options,  *)
(* the backing Map (options.cache, insertion ordered) and the LRUQueue.    *)
(* Every public method is one action; a method that ends by a TypeError    *)
(* leaves the state it had reached and records threw = TRUE.               *)
(***************************************************************************)
EXTENDS Integers, Sequences, FiniteSets

(* ------------------------------ bounds -------------------------------- *)

\* set() is called while fewer than MaxSets items were created (each call that
\* passes the ttl check creates one)
MaxSets == 2

(* --------------------------- program values --------------------------- *)

\* the number Infinity: defaults of defaultTTL and maximalItemCount
Infinity == 1000000

Keys == {"a", "b", "c"}
Strategies == {"age", "lru"}
\* maximalItemCount values a cache is constructed with
Capacities == {1, 2}
\* the same for the long runs
LongCapacities == {2, 3}
\* timestamps handed to get, getItem and evictExpiredItems: an item stored at 1
\* with ttl 1 is not yet expired at 1 and expired at 2
Times == {1, 2}
\* the storageTimestamp of a set() (the clock, or the option)
StorageTimes == {1}
\* per-item ttl values passed to set (0 is the rejected one)
TTLs == {0, 1}
\* set() calls of a long run (LongSpec), which passes no per-item options
LongSets == MaxSets + 3
ItemIds == 1 .. LongSets
\* set() calls of a run with callbacks that call back into the cache
ReentrantSets == MaxSets + 2
\* the last item identity of a run over a Map that already holds items
PrepopulatedSets == MaxSets + 2

\* the value `undefined` where a key is expected
Undefined == "undefined"

\* the value `undefined` where a payload is expected
UndefinedValue == 0

\* the value `undefined` where an item is expected
UndefinedItem == [undefined |-> TRUE]

\* the count of a dispose callback that ran until the call stack was exhausted
ManyCalls == 2

\* defaultTTL values a cache is constructed with
DefaultTTLs == {Infinity}

\* the runs over the clock (TimeSpec): keys, defaultTTL values, per-item ttls
\* of set, ttls of setTTL, storage timestamps, the timestamps setTTL counts
\* from and the timestamps of get, getItem and evictExpiredItems
TimeKeys == {"a", "b"}
TimeDefaultTTLs == {0, 2, Infinity}
TimeTTLs == {0, 1, 2}
TimeNewTTLs == {1, 2}
TimeStorageTimes == {1, 2}
TimeBeginTimes == {1, 3}
TimeTimes == {2, 4}

VARIABLES
    options,      \* defaultTTL, maximalItemCount, evictExceedingItemsBy
    cache,        \* options.cache: the Map, a sequence of entries in insertion order
    lruQueue,     \* the LRUQueue: its nodes from least to most recently used
    disposeCalls, \* how often the dispose callback of each item was invoked
    nextId,       \* identity of the item the next set() creates
    useOrder,     \* history: the stored keys by their last use (set or returning get)
    lastOp        \* the public operation that returned (or threw) last

vars == <<options, cache, lruQueue, disposeCalls, nextId, useOrder, lastOp>>

\* the payload of the next set(): opaque to the cache, a distinct one per call
FreshValue == nextId

(* ------------------------------ Map ----------------------------------- *)

MapKeys(m) == {m[i].key : i \in DOMAIN m}

MapHas(m, key) == key \in MapKeys(m)

MapIndex(m, key) == CHOOSE i \in DOMAIN m : m[i].key = key

MapGet(m, key) == IF MapHas(m, key) THEN m[MapIndex(m, key)].item ELSE UndefinedItem

\* faulty variant: an existing key keeps its item
MapSetIfAbsent(m, key, item) ==
    IF MapHas(m, key) THEN m ELSE Append(m, [key |-> key, item |-> item])

\* Map.prototype.set: an existing key keeps its place in the iteration order
MapSet(m, key, item) ==
    IF MapHas(m, key)
    THEN [m EXCEPT ![MapIndex(m, key)] = [key |-> key, item |-> item]]
    ELSE Append(m, [key |-> key, item |-> item])

RemoveAt(s, i) == SubSeq(s, 1, i - 1) \o SubSeq(s, i + 1, Len(s))

MapDelete(m, key) == IF MapHas(m, key) THEN RemoveAt(m, MapIndex(m, key)) ELSE m

(* ---------------------------- LRUQueue --------------------------------- *)
(* A doubly linked order of nodes with a key -> node lookup.  A node is    *)
(* [key, indexed]: indexed means the lookup maps the key to this node.     *)

QueueKeys(q) == {q[i].key : i \in DOMAIN q}

QueueTracks(q, key) == \E i \in DOMAIN q : q[i].key = key /\ q[i].indexed

QueueIndex(q, key) == CHOOSE i \in DOMAIN q : q[i].key = key /\ q[i].indexed

\* forget the lookup entry of key
Unindex(q, key) ==
    [i \in DOMAIN q |-> IF q[i].key = key THEN [q[i] EXCEPT !.indexed = FALSE] ELSE q[i]]

\* push: a new node at the most-recently-used end; the lookup now maps key to it
QueuePush(q, key) == Append(Unindex(q, key), [key |-> key, indexed |-> TRUE])

QueueDelete(q, key) == IF QueueTracks(q, key) THEN RemoveAt(q, QueueIndex(q, key)) ELSE q

QueueTouch(q, key) ==
    IF QueueTracks(q, key)
    THEN Append(RemoveAt(q, QueueIndex(q, key)), [key |-> key, indexed |-> TRUE])
    ELSE q

\* shift: removes the first node and returns its key (Undefined when empty).
\* When the lookup maps that key to another node (the key was pushed twice)
\* the contract leaves open whether the lookup entry goes too: dropLookup.
QueueShift(q, dropLookup) ==
    IF q = <<>>
    THEN [key |-> Undefined, queue |-> q]
    ELSE [key |-> Head(q).key,
          queue |-> IF dropLookup THEN Unindex(Tail(q), Head(q).key) ELSE Tail(q)]

\* the outcomes of shift the contract leaves open for the queue q
ShiftChoices(q) ==
    IF q # <<>> /\ ~Head(q).indexed /\ QueueTracks(q, Head(q).key)
    THEN BOOLEAN
    ELSE {FALSE}

(* ------------------------------ Cache ---------------------------------- *)
(* The private methods work on s = [cache, lruQueue, disposeCalls, removed, *)
(* threw, active]: removed lists the ids of the items a delete took out of  *)
(* the Map, threw is set when the method ended by an exception, active is   *)
(* the call stack: the items whose dispose callback is running, tracked     *)
(* tells whether the LRUQueue tracked the key when set called push.         *)
(* A dispose callback is user code: item.dispose says that one is           *)
(* registered, item.deletes names the key it passes to cache.delete         *)
(* (Undefined for a callback that does not call back into the cache).       *)

RECURSIVE CacheDelete(_, _)

\* Cache.dispose: item.dispose of an undefined item is a TypeError.  A callback
\* that is entered again while it runs (its item is still in the Map, and the
\* delete it calls leads back to it) recurses until the stack is exhausted: a
\* RangeError, after it ran more than once.
Dispose(s, key) ==
    LET item == MapGet(s.cache, key) IN
    IF item = UndefinedItem
    THEN [s EXCEPT !.threw = TRUE]
    ELSE IF ~item.dispose
         THEN s
         ELSE IF \E n \in DOMAIN s.active : s.active[n] = item.id
              THEN LET first == CHOOSE n \in DOMAIN s.active : s.active[n] = item.id
                       again == {s.active[n] : n \in first .. Len(s.active)}
                   IN [s EXCEPT !.threw = TRUE,
                                !.disposeCalls = [i \in DOMAIN @ |->
                                    IF i \in again THEN ManyCalls ELSE @[i]]]
              ELSE LET called == [s EXCEPT !.disposeCalls[item.id] = @ + 1,
                                           !.active = Append(@, item.id)]
                       back == IF item.deletes = Undefined
                               THEN called
                               ELSE CacheDelete(called, item.deletes)
                   IN [back EXCEPT !.active = s.active]

\* what dispose; lruQueue.delete; cache.delete do after dispose returned
RemoveKey(s, key) ==
    [s EXCEPT !.lruQueue = QueueDelete(@, key),
              !.cache = MapDelete(@, key),
              !.removed = IF MapHas(s.cache, key)
                          THEN Append(@, MapGet(s.cache, key).id)
                          ELSE @]

\* faulty variant: delete without the call of dispose
CacheDeleteWithoutDispose(s, key) ==
    IF MapGet(s.cache, key) = UndefinedItem THEN [s EXCEPT !.threw = TRUE] ELSE RemoveKey(s, key)

\* Cache.delete
CacheDelete(s, key) ==
    LET d == Dispose(s, key) IN
    IF d.threw THEN d ELSE RemoveKey(d, key)

\* Cache.deleteOldestItem
DeleteOldestItem(s) ==
    LET key == IF s.cache = <<>> THEN Undefined ELSE s.cache[1].key IN
    IF key # Undefined THEN CacheDelete(s, key) ELSE s

\* Cache.deleteLeastRecentlyUsedItem
DeleteLeastRecentlyUsedItem(s, dropLookup) ==
    LET sh == QueueShift(s.lruQueue, dropLookup)
        d == Dispose([s EXCEPT !.lruQueue = sh.queue], sh.key)
    IN IF d.threw THEN d ELSE RemoveKey(d, sh.key)

\* faulty variant: the loop condition with > for >=
RECURSIVE EvictWhileAboveCapacity(_, _, _)
EvictWhileAboveCapacity(s, opts, dropLookup) ==
    IF s.threw \/ ~(Len(s.cache) > opts.maximalItemCount)
    THEN s
    ELSE EvictWhileAboveCapacity(
            IF opts.evictExceedingItemsBy = "age"
            THEN DeleteOldestItem(s)
            ELSE DeleteLeastRecentlyUsedItem(s, dropLookup),
            opts, dropLookup)

\* faulty variant: the loop makes room for one item more than needed
RECURSIVE EvictBelowCapacity(_, _, _)
EvictBelowCapacity(s, opts, dropLookup) ==
    IF s.threw \/ s.cache = <<>> \/ ~(Len(s.cache) + 1 >= opts.maximalItemCount)
    THEN s
    ELSE EvictBelowCapacity(
            IF opts.evictExceedingItemsBy = "age"
            THEN DeleteOldestItem(s)
            ELSE DeleteLeastRecentlyUsedItem(s, dropLookup),
            opts, dropLookup)

\* the while loop of Cache.set
RECURSIVE EvictExceedingItems(_, _, _)
EvictExceedingItems(s, opts, dropLookup) ==
    IF s.threw \/ ~(Len(s.cache) >= opts.maximalItemCount)
    THEN s
    ELSE EvictExceedingItems(
            IF opts.evictExceedingItemsBy = "age"
            THEN DeleteOldestItem(s)
            ELSE DeleteLeastRecentlyUsedItem(s, dropLookup),
            opts, dropLookup)

\* the for loop of Cache.evictExpiredItems, from the i-th entry of the Map on
RECURSIVE SweepFrom(_, _, _)
SweepFrom(s, i, ifOlderThanTimestamp) ==
    IF i > Len(s.cache)
    THEN s
    ELSE IF s.cache[i].item.expireAfterTimestamp <= ifOlderThanTimestamp
         THEN SweepFrom(CacheDelete(s, s.cache[i].key), i, ifOlderThanTimestamp)
         ELSE SweepFrom(s, i + 1, ifOlderThanTimestamp)

\* the state the methods start from
Current ==
    [cache |-> cache, lruQueue |-> lruQueue, disposeCalls |-> disposeCalls,
     removed |-> <<>>, threw |-> FALSE, active |-> <<>>, tracked |-> FALSE]

Restrict(seq, S) == SelectSeq(seq, LAMBDA k : k \in S)

\* the stored keys by last use, after a method that used `used` (or Undefined)
UseOrderAfter(m, used) ==
    LET kept == Restrict(useOrder, MapKeys(m) \ {used}) IN
    IF used \in MapKeys(m) THEN Append(kept, used) ELSE kept

\* what is recorded of a call: present tells whether the key was stored when
\* the call began, tracked whether the LRUQueue tracked it when set called
\* push, removed are the ids a delete took out of the Map, cleared the items
\* Map.clear dropped
Returned(op, key, arg, s, ret) ==
    [op |-> op, key |-> key, arg |-> arg, present |-> MapHas(cache, key),
     tracked |-> s.tracked, threw |-> s.threw, removed |-> s.removed,
     cleared |-> <<>>, ret |-> ret]

Init ==
    /\ options \in [defaultTTL : DefaultTTLs,
                    maximalItemCount : Capacities,
                    evictExceedingItemsBy : Strategies]
    /\ cache = <<>>
    /\ lruQueue = <<>>
    /\ disposeCalls = [i \in ItemIds |-> 0]
    /\ nextId = 1
    /\ useOrder = <<>>
    /\ lastOp = [op |-> "new", key |-> Undefined, arg |-> 0, present |-> FALSE,
                 tracked |-> FALSE, threw |-> FALSE, removed |-> <<>>, cleared |-> <<>>,
                 ret |-> Undefined]

\* faulty variant: the expiry is the ttl, not counted from storageTimestamp
SetItemExpiringAtTTL(s, key, value, ttl, storageTimestamp, dispose, deletes, dropLookup) ==
    LET expireAfterTimestamp == IF ttl < Infinity THEN ttl ELSE Infinity
        item == [id |-> nextId, dispose |-> dispose, deletes |-> deletes,
                 expireAfterTimestamp |-> expireAfterTimestamp,
                 storageTimestamp |-> storageTimestamp, value |-> value]
        e == EvictExceedingItems(s, options, dropLookup)
    IN IF e.threw
       THEN e
       ELSE [e EXCEPT !.tracked = QueueTracks(e.lruQueue, key),
                      !.lruQueue = QueuePush(@, key),
                      !.cache = MapSet(@, key, item)]

\* Cache.set once ttl > 0: the item, the capacity loop, push and Map.set
SetItem(s, key, value, ttl, storageTimestamp, dispose, deletes, dropLookup) ==
    LET expireAfterTimestamp == IF ttl < Infinity THEN storageTimestamp + ttl ELSE Infinity
        item == [id |-> nextId, dispose |-> dispose, deletes |-> deletes,
                 expireAfterTimestamp |-> expireAfterTimestamp,
                 storageTimestamp |-> storageTimestamp, value |-> value]
        e == EvictExceedingItems(s, options, dropLookup)
    IN IF e.threw
       THEN e
       ELSE [e EXCEPT !.tracked = QueueTracks(e.lruQueue, key),
                      !.lruQueue = QueuePush(@, key),
                      !.cache = MapSet(@, key, item)]

\* faulty variant: only a negative ttl is rejected
SetRejectingNegativeOnly(key, value, ttl, storageTimestamp, dispose, deletes, dropLookup) ==
    /\ IF ttl < 0
       THEN /\ lastOp' = Returned("set", key, ttl, Current, FALSE)
            /\ UNCHANGED <<options, cache, lruQueue, disposeCalls, nextId, useOrder>>
       ELSE LET s == SetItem(Current, key, value, ttl, storageTimestamp, dispose, deletes,
                             dropLookup) IN
            /\ cache' = s.cache
            /\ lruQueue' = s.lruQueue
            /\ disposeCalls' = s.disposeCalls
            /\ nextId' = nextId + 1
            /\ useOrder' = UseOrderAfter(s.cache, IF s.threw THEN Undefined ELSE key)
            /\ lastOp' = Returned("set", key, ttl, s, IF s.threw THEN Undefined ELSE TRUE)
            /\ UNCHANGED options

\* Cache.set: options.ttl is the per-item ttl, or defaultTTL when none is given
Set(key, value, ttl, storageTimestamp, dispose, deletes, dropLookup) ==
    /\ IF ttl <= 0
       THEN /\ lastOp' = Returned("set", key, ttl, Current, FALSE)
            /\ UNCHANGED <<options, cache, lruQueue, disposeCalls, nextId, useOrder>>
       ELSE LET s == SetItem(Current, key, value, ttl, storageTimestamp, dispose, deletes,
                             dropLookup) IN
            /\ cache' = s.cache
            /\ lruQueue' = s.lruQueue
            /\ disposeCalls' = s.disposeCalls
            /\ nextId' = nextId + 1
            /\ useOrder' = UseOrderAfter(s.cache, IF s.threw THEN Undefined ELSE key)
            /\ lastOp' = Returned("set", key, ttl, s, IF s.threw THEN Undefined ELSE TRUE)
            /\ UNCHANGED options

\* Cache.peekItem
PeekItem(key) ==
    /\ lastOp' = Returned("peekItem", key, 0, Current, MapGet(cache, key))
    /\ UNCHANGED <<options, cache, lruQueue, disposeCalls, nextId, useOrder>>

\* item && item.value
ValueOf(item) == IF item = UndefinedItem THEN UndefinedValue ELSE item.value

\* faulty variant: peek marks the key as used
PeekTouching(key) ==
    /\ lastOp' = Returned("peek", key, 0, Current, ValueOf(MapGet(cache, key)))
    /\ lruQueue' = QueueTouch(lruQueue, key)
    /\ UNCHANGED <<options, cache, disposeCalls, nextId, useOrder>>

\* Cache.peek
Peek(key) ==
    /\ lastOp' = Returned("peek", key, 0, Current, ValueOf(MapGet(cache, key)))
    /\ UNCHANGED <<options, cache, lruQueue, disposeCalls, nextId, useOrder>>

\* faulty variant: a hit writes the time of the access into the item's expiry
GetItemBodyStampingExpiry(s, key, ifNotExpiredOnTimestamp) ==
    LET item == MapGet(s.cache, key)
        stamped == [item EXCEPT !.expireAfterTimestamp = ifNotExpiredOnTimestamp]
    IN
    IF item # UndefinedItem /\ item.expireAfterTimestamp <= ifNotExpiredOnTimestamp
    THEN [state |-> CacheDelete(s, key), ret |-> UndefinedItem]
    ELSE IF item = UndefinedItem
         THEN [state |-> [s EXCEPT !.lruQueue = QueueTouch(@, key)], ret |-> item]
         ELSE [state |-> [s EXCEPT !.lruQueue = QueueTouch(@, key),
                                   !.cache = MapSet(@, key, stamped)],
               ret |-> stamped]

\* the body of Cache.getItem: the state it leaves and the item it returns
GetItemBody(s, key, ifNotExpiredOnTimestamp) ==
    LET item == MapGet(s.cache, key) IN
    IF item # UndefinedItem /\ item.expireAfterTimestamp <= ifNotExpiredOnTimestamp
    THEN [state |-> CacheDelete(s, key), ret |-> UndefinedItem]
    ELSE [state |-> [s EXCEPT !.lruQueue = QueueTouch(@, key)], ret |-> item]

\* Cache.getItem
GetItem(key, ifNotExpiredOnTimestamp) ==
    LET g == GetItemBody(Current, key, ifNotExpiredOnTimestamp) IN
    /\ cache' = g.state.cache
    /\ lruQueue' = g.state.lruQueue
    /\ disposeCalls' = g.state.disposeCalls
    /\ useOrder' = UseOrderAfter(g.state.cache, IF g.ret = UndefinedItem THEN Undefined ELSE key)
    /\ lastOp' = Returned("getItem", key, ifNotExpiredOnTimestamp, g.state, g.ret)
    /\ UNCHANGED <<options, nextId>>

\* Cache.get
Get(key, ifNotExpiredOnTimestamp) ==
    LET g == GetItemBody(Current, key, ifNotExpiredOnTimestamp) IN
    /\ cache' = g.state.cache
    /\ lruQueue' = g.state.lruQueue
    /\ disposeCalls' = g.state.disposeCalls
    /\ useOrder' = UseOrderAfter(g.state.cache, IF g.ret = UndefinedItem THEN Undefined ELSE key)
    /\ lastOp' = Returned("get", key, ifNotExpiredOnTimestamp, g.state, ValueOf(g.ret))
    /\ UNCHANGED <<options, nextId>>

\* Cache.evictExpiredItems
EvictExpiredItems(ifOlderThanTimestamp) ==
    LET s == SweepFrom(Current, 1, ifOlderThanTimestamp) IN
    /\ cache' = s.cache
    /\ lruQueue' = s.lruQueue
    /\ disposeCalls' = s.disposeCalls
    /\ useOrder' = UseOrderAfter(s.cache, Undefined)
    /\ lastOp' = Returned("evictExpiredItems", Undefined, ifOlderThanTimestamp, s, Undefined)
    /\ UNCHANGED <<options, nextId>>

\* Cache.has
Has(key) ==
    /\ lastOp' = Returned("has", key, 0, Current, MapHas(cache, key))
    /\ UNCHANGED <<options, cache, lruQueue, disposeCalls, nextId, useOrder>>

\* Cache.delete
Delete(key) ==
    LET s == CacheDelete(Current, key) IN
    /\ cache' = s.cache
    /\ lruQueue' = s.lruQueue
    /\ disposeCalls' = s.disposeCalls
    /\ useOrder' = UseOrderAfter(s.cache, Undefined)
    /\ lastOp' = Returned("delete", key, 0, s,
                          IF s.threw THEN Undefined ELSE MapHas(cache, key))
    /\ UNCHANGED <<options, nextId>>

\* faulty variant: clear forgets the LRUQueue
ClearMapOnly ==
    /\ cache' = <<>>
    /\ useOrder' = <<>>
    /\ lastOp' = [Returned("clear", Undefined, 0, Current, Undefined)
                    EXCEPT !.cleared = [i \in DOMAIN cache |-> cache[i].item]]
    /\ UNCHANGED <<options, lruQueue, disposeCalls, nextId>>

\* Cache.clear
Clear ==
    /\ cache' = <<>>
    /\ lruQueue' = <<>>
    /\ useOrder' = <<>>
    /\ lastOp' = [Returned("clear", Undefined, 0, Current, Undefined)
                    EXCEPT !.cleared = [i \in DOMAIN cache |-> cache[i].item]]
    /\ UNCHANGED <<options, disposeCalls, nextId>>

\* Cache.size
Size ==
    /\ lastOp' = Returned("size", Undefined, 0, Current, Len(cache))
    /\ UNCHANGED <<options, cache, lruQueue, disposeCalls, nextId, useOrder>>

\* the arguments of a setTTL call, as recorded
TTLArgs(ttl, beginningFromTimestamp) ==
    [ttl |-> ttl, beginningFromTimestamp |-> beginningFromTimestamp]

\* faulty variant: the new expiry counts from the item's storageTimestamp
SetTTLFromStorage(key, ttl, beginningFromTimestamp) ==
    LET item == MapGet(cache, key)
        args == TTLArgs(ttl, beginningFromTimestamp)
    IN
    IF item = UndefinedItem
    THEN /\ lastOp' = Returned("setTTL", key, args, [Current EXCEPT !.threw = TRUE], Undefined)
         /\ UNCHANGED <<options, cache, lruQueue, disposeCalls, nextId, useOrder>>
    ELSE /\ cache' = MapSet(cache, key,
                    [item EXCEPT !.expireAfterTimestamp = item.storageTimestamp + ttl])
         /\ lastOp' = Returned("setTTL", key, args, Current, item.storageTimestamp + ttl)
         /\ UNCHANGED <<options, lruQueue, disposeCalls, nextId, useOrder>>

\* faulty variant: an absent key is passed over in silence
SetTTLIfPresent(key, ttl, beginningFromTimestamp) ==
    LET item == MapGet(cache, key)
        args == TTLArgs(ttl, beginningFromTimestamp)
    IN
    IF item = UndefinedItem
    THEN /\ lastOp' = Returned("setTTL", key, args, Current, Undefined)
         /\ UNCHANGED <<options, cache, lruQueue, disposeCalls, nextId, useOrder>>
    ELSE /\ cache' = MapSet(cache, key,
                    [item EXCEPT !.expireAfterTimestamp = beginningFromTimestamp + ttl])
         /\ lastOp' = Returned("setTTL", key, args, Current, beginningFromTimestamp + ttl)
         /\ UNCHANGED <<options, lruQueue, disposeCalls, nextId, useOrder>>

\* Cache.setTTL: item.expireAfterTimestamp of an undefined item is a TypeError
SetTTL(key, ttl, beginningFromTimestamp) ==
    LET item == MapGet(cache, key)
        args == TTLArgs(ttl, beginningFromTimestamp)
    IN
    IF item = UndefinedItem
    THEN /\ lastOp' = Returned("setTTL", key, args, [Current EXCEPT !.threw = TRUE], Undefined)
         /\ UNCHANGED <<options, cache, lruQueue, disposeCalls, nextId, useOrder>>
    ELSE /\ cache' = MapSet(cache, key,
                    [item EXCEPT !.expireAfterTimestamp = beginningFromTimestamp + ttl])
         /\ lastOp' = Returned("setTTL", key, args, Current, beginningFromTimestamp + ttl)
         /\ UNCHANGED <<options, lruQueue, disposeCalls, nextId, useOrder>>

Next ==
    \/ /\ nextId <= MaxSets
       /\ \E key \in Keys, ttl \in TTLs \cup {options.defaultTTL},
             storageTimestamp \in StorageTimes, dispose \in BOOLEAN,
             dropLookup \in ShiftChoices(lruQueue) :
               Set(key, FreshValue, ttl, storageTimestamp, dispose, Undefined, dropLookup)
    \/ \E key \in Keys : PeekItem(key)
    \/ \E key \in Keys : Peek(key)
    \/ \E key \in Keys, asOf \in Times : GetItem(key, asOf)
    \/ \E key \in Keys, asOf \in Times : Get(key, asOf)
    \/ \E asOf \in Times : EvictExpiredItems(asOf)
    \/ \E key \in Keys : Has(key)
    \/ \E key \in Keys : Delete(key)
    \/ Clear
    \/ Size
    \/ \E key \in Keys, ttl \in TTLs \ {0}, begin \in StorageTimes : SetTTL(key, ttl, begin)

Spec == Init /\ [][Next]_vars

(* Longer runs over caches of capacity 2 and 3: set with the default ttl and  *)
(* a dispose callback, get and delete of a stored key.                       *)

LongInit ==
    /\ options \in [defaultTTL : DefaultTTLs,
                    maximalItemCount : LongCapacities,
                    evictExceedingItemsBy : Strategies]
    /\ cache = <<>>
    /\ lruQueue = <<>>
    /\ disposeCalls = [i \in ItemIds |-> 0]
    /\ nextId = 1
    /\ useOrder = <<>>
    /\ lastOp = [op |-> "new", key |-> Undefined, arg |-> 0, present |-> FALSE,
                 tracked |-> FALSE, threw |-> FALSE, removed |-> <<>>, cleared |-> <<>>,
                 ret |-> Undefined]

LongNext ==
    \/ /\ nextId <= LongSets
       /\ \E key \in Keys, dropLookup \in ShiftChoices(lruQueue) :
               Set(key, FreshValue, options.defaultTTL, 1, TRUE, Undefined, dropLookup)
    \/ \E key \in Keys : Get(key, 1)
    \/ \E key \in MapKeys(cache) : Delete(key)

LongSpec == LongInit /\ [][LongNext]_vars

(* Runs with dispose callbacks that call back into the cache: a cache of     *)
(* capacity 2, set with the default ttl and one of the callbacks, and get of *)
(* a stored key.                                                             *)

\* the dispose option of a set: a callback that leaves the cache alone, or one
\* that calls cache.delete(k)
Callbacks ==
    {[dispose |-> TRUE, deletes |-> Undefined]}
        \cup {[dispose |-> TRUE, deletes |-> k] : k \in Keys}

ReentrantInit ==
    /\ options \in [defaultTTL : DefaultTTLs,
                    maximalItemCount : {2},
                    evictExceedingItemsBy : Strategies]
    /\ cache = <<>>
    /\ lruQueue = <<>>
    /\ disposeCalls = [i \in ItemIds |-> 0]
    /\ nextId = 1
    /\ useOrder = <<>>
    /\ lastOp = [op |-> "new", key |-> Undefined, arg |-> 0, present |-> FALSE,
                 tracked |-> FALSE, threw |-> FALSE, removed |-> <<>>, cleared |-> <<>>,
                 ret |-> Undefined]

ReentrantNext ==
    \/ /\ nextId <= ReentrantSets
       /\ \E key \in Keys, cb \in Callbacks, dropLookup \in ShiftChoices(lruQueue) :
               Set(key, FreshValue, options.defaultTTL, 1, cb.dispose, cb.deletes, dropLookup)
    \/ \E key \in MapKeys(cache) : Get(key, 1)

ReentrantSpec == ReentrantInit /\ [][ReentrantNext]_vars

(* Runs of a cache constructed over a Map that already holds items (the     *)
(* `cache` option): set with the default ttl, get, and delete of a stored    *)
(* key.  The constructor stores the Map and leaves the new LRUQueue empty.   *)

\* the item a Map handed to the constructor holds under its n-th key, stored
\* at 0, before the cache was constructed
PreexistingItem(n) ==
    [id |-> n, dispose |-> TRUE, deletes |-> Undefined,
     expireAfterTimestamp |-> Infinity, storageTimestamp |-> 0, value |-> n]

\* the Maps handed to the constructor
PrepopulatedMaps ==
    {<<[key |-> "a", item |-> PreexistingItem(1)]>>,
     <<[key |-> "a", item |-> PreexistingItem(1)], [key |-> "b", item |-> PreexistingItem(2)]>>}

PrepopulatedInit ==
    /\ options \in [defaultTTL : DefaultTTLs,
                    maximalItemCount : Capacities,
                    evictExceedingItemsBy : Strategies]
    /\ cache \in PrepopulatedMaps
    /\ lruQueue = <<>>
    /\ disposeCalls = [i \in ItemIds |-> 0]
    /\ nextId = Len(cache) + 1
    /\ useOrder = <<>>
    /\ lastOp = [op |-> "new", key |-> Undefined, arg |-> 0, present |-> FALSE,
                 tracked |-> FALSE, threw |-> FALSE, removed |-> <<>>, cleared |-> <<>>,
                 ret |-> Undefined]

PrepopulatedNext ==
    \/ /\ nextId <= PrepopulatedSets
       /\ \E key \in Keys, dropLookup \in ShiftChoices(lruQueue) :
               Set(key, FreshValue, options.defaultTTL, 1, TRUE, Undefined, dropLookup)
    \/ \E key \in Keys : Get(key, 1)
    \/ \E key \in MapKeys(cache) : Delete(key)

PrepopulatedSpec == PrepopulatedInit /\ [][PrepopulatedNext]_vars

(* Runs over the clock: an 'lru' cache whose writes carry per-item ttls and   *)
(* storage timestamps (no dispose callbacks), read and swept at several      *)
(* times, with setTTL from a timestamp other than the storage one.           *)

TimeInit ==
    /\ options \in [defaultTTL : TimeDefaultTTLs,
                    maximalItemCount : Capacities,
                    evictExceedingItemsBy : {"lru"}]
    /\ cache = <<>>
    /\ lruQueue = <<>>
    /\ disposeCalls = [i \in ItemIds |-> 0]
    /\ nextId = 1
    /\ useOrder = <<>>
    /\ lastOp = [op |-> "new", key |-> Undefined, arg |-> 0, present |-> FALSE,
                 tracked |-> FALSE, threw |-> FALSE, removed |-> <<>>, cleared |-> <<>>,
                 ret |-> Undefined]

TimeNext ==
    \/ /\ nextId <= MaxSets
       /\ \E key \in TimeKeys, ttl \in TimeTTLs \cup {options.defaultTTL},
             storageTimestamp \in TimeStorageTimes,
             dropLookup \in ShiftChoices(lruQueue) :
               Set(key, FreshValue, ttl, storageTimestamp, FALSE, Undefined, dropLookup)
    \/ \E key \in TimeKeys, asOf \in TimeTimes : GetItem(key, asOf)
    \/ \E key \in TimeKeys, asOf \in TimeTimes : Get(key, asOf)
    \/ \E asOf \in TimeTimes : EvictExpiredItems(asOf)
    \/ \E key \in TimeKeys, ttl \in TimeNewTTLs, begin \in TimeBeginTimes :
            SetTTL(key, ttl, begin)

TimeSpec == TimeInit /\ [][TimeNext]_vars

(* ============================== claims ================================= *)

StoredIds(m) == {m[i].item.id : i \in DOMAIN m}

Range(seq) == {seq[i] : i \in DOMAIN seq}

\* a set() that got past the ttl check happened in this step
SetStored == lastOp'.op = "set" /\ nextId' = nextId + 1

\* C1: whenever a public operation has returned, the number of stored items
\* is at most maximalItemCount.
C1_SizeWithinCapacity == Len(cache) <= options.maximalItemCount

\* C1 witness: a set on a full store returned after evicting one item
C1_Witness ==
    /\ lastOp.op = "set" /\ ~lastOp.threw
    /\ Len(lastOp.removed) = 1
    /\ Len(cache) = options.maximalItemCount

\* C2: after every operation that returned, the keys of the LRUQueue are
\* exactly the keys of the Map.
C2_QueueKeysAreStoreKeys == ~lastOp.threw => QueueKeys(lruQueue) = MapKeys(cache)

ItemOf(m, id) == m[CHOOSE i \in DOMAIN m : m[i].item.id = id].item

\* the items a step took out of the Map through Cache.delete or an eviction
DeletedIds ==
    IF lastOp'.op \in {"delete", "get", "getItem", "evictExpiredItems"}
    THEN StoredIds(cache) \ StoredIds(cache')
    ELSE IF lastOp'.op = "set" THEN Range(lastOp'.removed) ELSE {}

\* C3: a dispose callback is invoked only in the step that removes its item
\* from the store, then exactly once (delete, capacity eviction, lazy expiry,
\* sweep), and never again; no lookup and no get of a live item invokes it.
C3_DisposeOnceOnRemoval ==
    [][/\ \A i \in ItemIds : disposeCalls'[i] # disposeCalls[i] =>
            /\ i \in StoredIds(cache) \ StoredIds(cache')
            /\ ItemOf(cache, i).dispose
            /\ disposeCalls[i] = 0 /\ disposeCalls'[i] = 1
            /\ i \in DeletedIds
       /\ DeletedIds \subseteq StoredIds(cache) \ StoredIds(cache')
       /\ \A i \in DeletedIds : ItemOf(cache, i).dispose => disposeCalls'[i] = 1
       /\ \A i \in StoredIds(cache') : disposeCalls'[i] = 0]_vars

\* C3 witness: a set evicted an item with a dispose callback, which ran once
C3_Witness ==
    /\ lastOp.op = "set" /\ ~lastOp.threw
    /\ \E i \in Range(lastOp.removed) : disposeCalls[i] = 1

\* C4: under 'lru' every eviction of set removes the least recently used of
\* the stored keys (used: stored by set, or returned by get/getItem).
C4_LruEvictsLeastRecentlyUsed ==
    [][(SetStored /\ options.evictExceedingItemsBy = "lru" /\ lastOp'.removed # <<>>) =>
            /\ useOrder # <<>>
            /\ lastOp'.removed = <<MapGet(cache, Head(useOrder)).id>>]_vars

Min(S) == CHOOSE x \in S : \A y \in S : x <= y

\* C5: under 'age' every eviction of set removes the item whose storing set
\* call is the earliest among the stored items, overwritten keys included.
C5_AgeEvictsOldestInserted ==
    [][(SetStored /\ options.evictExceedingItemsBy = "age" /\ lastOp'.removed # <<>>) =>
            lastOp'.removed = <<Min(StoredIds(cache))>>]_vars

\* C6: get/getItem of a present key: expired (expireAfterTimestamp <= asOf)
\* means removed from Map and LRUQueue, disposed, and undefined returned;
\* otherwise the value/item is returned, the key is the most recently used
\* one, and nothing is removed.
C6_GetExpiresOrReturns ==
    [][(lastOp'.op \in {"get", "getItem"} /\ MapHas(cache, lastOp'.key)) =>
        LET key == lastOp'.key
            item == MapGet(cache, key)
        IN IF item.expireAfterTimestamp <= lastOp'.arg
           THEN /\ key \notin MapKeys(cache')
                /\ key \notin QueueKeys(lruQueue')
                /\ item.dispose => disposeCalls'[item.id] = disposeCalls[item.id] + 1
                /\ IF lastOp'.op = "get"
                   THEN lastOp'.ret = UndefinedValue
                   ELSE lastOp'.ret = UndefinedItem
           ELSE /\ IF lastOp'.op = "get"
                   THEN lastOp'.ret = item.value
                   ELSE lastOp'.ret = item
                /\ lruQueue' # <<>> /\ lruQueue'[Len(lruQueue')].key = key
                /\ cache' = cache
                /\ disposeCalls' = disposeCalls]_vars

\* C7: peek, peekItem, has and size change nothing (Map, items, recency
\* order, dispose counts) and answer from the Map alone, expired or not.
C7_LookupsHaveNoSideEffects ==
    [][lastOp'.op \in {"peek", "peekItem", "has", "size"} =>
        /\ UNCHANGED <<options, cache, lruQueue, disposeCalls>>
        /\ lastOp'.op = "peekItem" => lastOp'.ret = MapGet(cache, lastOp'.key)
        /\ lastOp'.op = "peek" =>
              lastOp'.ret = IF MapHas(cache, lastOp'.key)
                            THEN MapGet(cache, lastOp'.key).value
                            ELSE UndefinedValue
        /\ lastOp'.op = "has" => lastOp'.ret = (lastOp'.key \in MapKeys(cache))
        /\ lastOp'.op = "size" => lastOp'.ret = Len(cache)]_vars

\* C7 witness: peek returned the value of an item whose expiry has passed
C7_Witness ==
    /\ lastOp.op = "peek"
    /\ MapHas(cache, lastOp.key)
    /\ \E t \in Times : MapGet(cache, lastOp.key).expireAfterTimestamp <= t
    /\ lastOp.ret = MapGet(cache, lastOp.key).value

\* C8: evictExpiredItems(t) removes from Map and LRUQueue exactly the items
\* with expireAfterTimestamp <= t, disposing each once, and leaves the other
\* items, their fields and their recency order as they were.
C8_SweepRemovesExactlyExpired ==
    [][lastOp'.op = "evictExpiredItems" =>
        LET Due(e) == e.item.expireAfterTimestamp <= lastOp'.arg
            dueKeys == {cache[i].key : i \in {j \in DOMAIN cache : Due(cache[j])}}
        IN /\ cache' = SelectSeq(cache, LAMBDA e : ~Due(e))
           /\ lruQueue' = SelectSeq(lruQueue, LAMBDA n : n.key \notin dueKeys)
           /\ \A i \in DOMAIN cache :
                disposeCalls'[cache[i].item.id] =
                    IF Due(cache[i]) /\ cache[i].item.dispose
                    THEN disposeCalls[cache[i].item.id] + 1
                    ELSE disposeCalls[cache[i].item.id]]_vars

\* C9: a set on a present key never invokes the dispose callback of the item
\* it replaces, at capacity or not.
C9_OverwriteNeverDisposes ==
    [][(SetStored /\ ~lastOp'.threw /\ MapHas(cache, lastOp'.key)) =>
            disposeCalls'[MapGet(cache, lastOp'.key).id] = 0]_vars

\* C10: clear empties the Map and the LRUQueue and invokes no dispose.
C10_ClearEmptiesWithoutDispose ==
    [][lastOp'.op = "clear" =>
        /\ cache' = <<>>
        /\ lruQueue' = <<>>
        /\ disposeCalls' = disposeCalls
        /\ ~lastOp'.threw]_vars

\* C10 witness: clear dropped an item with a dispose callback that never ran
C10_Witness ==
    /\ lastOp.op = "clear"
    /\ \E i \in DOMAIN lastOp.cleared :
          lastOp.cleared[i].dispose /\ disposeCalls[lastOp.cleared[i].id] = 0

\* C11: a set whose effective ttl (the per-item ttl, else defaultTTL) is <= 0
\* returns false and changes nothing: no item added, overwritten or evicted,
\* recency order unchanged, no dispose, also when the store is at capacity.
C11_NonPositiveTTLRejected ==
    [][(lastOp'.op = "set" /\ lastOp'.arg <= 0) =>
        /\ ~lastOp'.threw
        /\ lastOp'.ret = FALSE
        /\ UNCHANGED <<cache, lruQueue, disposeCalls, useOrder>>]_vars

\* C11 witness: a set with ttl 0 on a store at capacity returned false
C11_Witness ==
    /\ lastOp.op = "set" /\ lastOp.arg <= 0
    /\ ~lastOp.threw /\ lastOp.ret = FALSE
    /\ Len(cache) = options.maximalItemCount
    /\ \E i \in DOMAIN cache : cache[i].item.dispose

\* C12: peek, get, has and delete of a key that is not stored return the
\* not-found result (undefined, undefined, false, false) without throwing and
\* leave the Map, the recency order and the dispose counts unchanged.
C12_AbsentKeyIsNotAnError ==
    [][(lastOp'.op \in {"peek", "get", "has", "delete"} /\ ~lastOp'.present) =>
        /\ ~lastOp'.threw
        /\ IF lastOp'.op \in {"peek", "get"}
           THEN lastOp'.ret = UndefinedValue
           ELSE lastOp'.ret = FALSE
        /\ UNCHANGED <<cache, lruQueue, disposeCalls, useOrder>>]_vars

\* C13: setTTL(key, ttl, beginningFromTimestamp) on a stored key sets the
\* item's expireAfterTimestamp to exactly beginningFromTimestamp + ttl, whatever
\* its prior expiry and its storageTimestamp, and returns that value; nothing
\* else of the store changes.
C13_SetTTLRecomputesExpiry ==
    [][(lastOp'.op = "setTTL" /\ lastOp'.present) =>
        LET key == lastOp'.key
            expiry == lastOp'.arg.beginningFromTimestamp + lastOp'.arg.ttl
        IN /\ ~lastOp'.threw
           /\ lastOp'.ret = expiry
           /\ MapGet(cache', key) = [MapGet(cache, key) EXCEPT !.expireAfterTimestamp = expiry]
           /\ \A i \in DOMAIN cache : cache[i].key # key => cache'[i] = cache[i]
           /\ Len(cache') = Len(cache)
           /\ UNCHANGED <<lruQueue, disposeCalls>>]_vars

\* C13 witness: setTTL gave an item an expiry that is neither its storage time
\* plus the ttl nor unbounded, and returned it
C13_Witness ==
    /\ lastOp.op = "setTTL" /\ ~lastOp.threw
    /\ MapHas(cache, lastOp.key)
    /\ MapGet(cache, lastOp.key).expireAfterTimestamp = lastOp.ret
    /\ lastOp.ret = lastOp.arg.beginningFromTimestamp + lastOp.arg.ttl
    /\ lastOp.ret # MapGet(cache, lastOp.key).storageTimestamp + lastOp.arg.ttl

\* C14: setTTL of a key that is not stored reports a failure to the caller (it
\* throws) and mutates nothing: no item is created, no expiry changes, the
\* recency order is unchanged.
C14_SetTTLOfAbsentKeyFails ==
    [][(lastOp'.op = "setTTL" /\ ~lastOp'.present) =>
        /\ lastOp'.threw
        /\ UNCHANGED <<cache, lruQueue, disposeCalls, useOrder>>]_vars

\* C14 witness: setTTL of an absent key threw on a store that holds other items
C14_Witness ==
    /\ lastOp.op = "setTTL" /\ ~lastOp.present
    /\ lastOp.threw
    /\ cache # <<>>
    /\ ~MapHas(cache, lastOp.key)

\* the expireAfterTimestamp stored under key
ExpiryOf(m, key) == MapGet(m, key).expireAfterTimestamp

\* the keys that stay in the store throughout a step
KeysThatStay ==
    {key \in MapKeys(cache) \cap MapKeys(cache') :
        MapGet(cache, key).id \notin Range(lastOp'.removed)}

\* C15: for every key, no operation other than a setTTL on that key lowers
\* the expireAfterTimestamp stored under it while the key stays in the store;
\* in particular no overwriting set does.
C15_ExpiryNeverDecreases ==
    [][\A key \in KeysThatStay :
            ~(lastOp'.op = "setTTL" /\ lastOp'.key = key) =>
                ExpiryOf(cache', key) >= ExpiryOf(cache, key)]_vars

\* C15 as amended: for every key, no operation other than a setTTL on that key
\* or a set that overwrites that key lowers the expireAfterTimestamp stored
\* under it while the key stays in the store.
C15_ExpiryDecreasesOnlyByWrite ==
    [][\A key \in KeysThatStay :
            ~(lastOp'.op \in {"setTTL", "set"} /\ lastOp'.key = key) =>
                ExpiryOf(cache', key) >= ExpiryOf(cache, key)]_vars

\* C15 witness: a get returned a live item with a finite expiry, which stays
\* stored
C15_Witness ==
    /\ lastOp.op = "get" /\ lastOp.present /\ ~lastOp.threw
    /\ MapHas(cache, lastOp.key)
    /\ lastOp.arg < ExpiryOf(cache, lastOp.key)
    /\ ExpiryOf(cache, lastOp.key) < Infinity

\* the payload of the last set() that stored an item
WrittenValue == nextId - 1

\* C16: a set(k, v) that returned true, followed at once by get(k, asOf) with
\* asOf earlier than the expireAfterTimestamp of the item written, returns v:
\* the item is stored under k after its own set, whatever that set evicted.
C16_SetThenGetReturnsValue ==
    [][(/\ lastOp.op = "set" /\ ~lastOp.threw /\ lastOp.ret = TRUE
        /\ lastOp'.op = "get" /\ lastOp'.key = lastOp.key) =>
            /\ MapHas(cache, lastOp.key)
            /\ MapGet(cache, lastOp.key).id = nextId - 1
            /\ lastOp'.arg < ExpiryOf(cache, lastOp.key) =>
                    /\ ~lastOp'.threw
                    /\ lastOp'.ret = WrittenValue]_vars

\* C16 witness: on a full store a get returned the payload of the latest set
C16_Witness ==
    /\ lastOp.op = "get" /\ lastOp.present /\ ~lastOp.threw
    /\ nextId > 1
    /\ lastOp.ret = WrittenValue
    /\ MapHas(cache, lastOp.key)
    /\ MapGet(cache, lastOp.key).id = nextId - 1
    /\ Len(cache) = options.maximalItemCount

\* C17: a set that returned true stored expireAfterTimestamp = storageTimestamp
\* + ttl for a finite effective ttl and Infinity for an unbounded one; get,
\* getItem and evictExpiredItems, at any timestamp, remove no item whose
\* expireAfterTimestamp is Infinity.
C17_ExpiryFromTTL ==
    [][/\ (SetStored /\ ~lastOp'.threw) =>
            LET item == MapGet(cache', lastOp'.key) IN
            /\ item # UndefinedItem
            /\ item.id = nextId
            /\ item.expireAfterTimestamp =
                    IF lastOp'.arg < Infinity
                    THEN item.storageTimestamp + lastOp'.arg
                    ELSE Infinity
       /\ lastOp'.op \in {"get", "getItem", "evictExpiredItems"} =>
            \A i \in DOMAIN cache :
                cache[i].item.expireAfterTimestamp = Infinity =>
                    /\ MapHas(cache', cache[i].key)
                    /\ MapGet(cache', cache[i].key) = cache[i].item]_vars

\* C17 witness: a sweep removed an item that was due and left one that never
\* expires
C17_Witness ==
    /\ lastOp.op = "evictExpiredItems" /\ ~lastOp.threw
    /\ lastOp.removed # <<>>
    /\ \E i \in DOMAIN cache : cache[i].item.expireAfterTimestamp = Infinity

\* the key the capacity loop of a set takes out first
Victim ==
    IF options.evictExceedingItemsBy = "age"
    THEN cache[1].key
    ELSE IF lruQueue = <<>> THEN Undefined ELSE Head(lruQueue).key

\* a set evicts, and the victim's dispose callback deletes another stored key;
\* every callback in the store that calls delete names another stored key
EvictionCallsBack ==
    /\ SetStored
    /\ Len(cache) >= options.maximalItemCount
    /\ MapHas(cache, Victim)
    /\ MapGet(cache, Victim).dispose
    /\ MapGet(cache, Victim).deletes \in MapKeys(cache) \ {Victim}
    /\ \A i \in DOMAIN cache :
            cache[i].item.deletes \in {Undefined} \cup (MapKeys(cache) \ {cache[i].key})

\* C18: when the dispose callback run by the capacity eviction of a set deletes
\* another stored key, the set returns normally, the size is within capacity,
\* Map and LRUQueue hold the same keys, the new item is stored and no dispose
\* callback has run more than once ('age' and 'lru').
C18_ReentrantDisposeTolerated ==
    [][EvictionCallsBack =>
        /\ ~lastOp'.threw
        /\ Len(cache') <= options.maximalItemCount
        /\ QueueKeys(lruQueue') = MapKeys(cache')
        /\ MapHas(cache', lastOp'.key)
        /\ MapGet(cache', lastOp'.key).id = nextId
        /\ \A i \in ItemIds : disposeCalls'[i] <= 1]_vars

\* C19: a set that returns true for a key that is not stored removes nothing
\* and runs no dispose when the size is below maximalItemCount (the size then
\* grows by one), and removes exactly one item when the size equals
\* maximalItemCount (the size stays); the other items stay stored.
C19_NewKeyEvictsAtMostOne ==
    [][(SetStored /\ ~lastOp'.threw /\ ~lastOp'.present) =>
        /\ StoredIds(cache') = (StoredIds(cache) \ Range(lastOp'.removed)) \cup {nextId}
        /\ IF Len(cache) < options.maximalItemCount
           THEN /\ lastOp'.removed = <<>>
                /\ disposeCalls' = disposeCalls
                /\ Len(cache') = Len(cache) + 1
           ELSE /\ Len(cache) = options.maximalItemCount
                /\ Len(lastOp'.removed) = 1
                /\ Len(cache') = options.maximalItemCount]_vars

\* C19 witness: a set of a key that was not stored returned on a full store
\* after removing one item, with a stale node still in the LRUQueue
C19_Witness ==
    /\ lastOp.op = "set" /\ ~lastOp.threw /\ ~lastOp.present
    /\ Len(lastOp.removed) = 1
    /\ Len(cache) = options.maximalItemCount
    /\ Len(lruQueue) > Len(cache)

\* C20: every call of set ends normally, returning true or false: the capacity
\* loop removes one item per iteration and never throws, under 'age' and under
\* 'lru', also after sets that overwrote stored keys.
C20_SetReturnsNormally ==
    lastOp.op = "set" => (~lastOp.threw /\ lastOp.ret \in BOOLEAN)

\* C21: a set on a key that is stored removes no other key: afterwards every
\* key that was stored is still stored and the size is unchanged, also on a
\* store at capacity, under 'age' and under 'lru'.
C21_OverwriteRemovesNoOtherKey ==
    [][(SetStored /\ ~lastOp'.threw /\ lastOp'.present) =>
        /\ MapKeys(cache') = MapKeys(cache)
        /\ Len(cache') = Len(cache)]_vars

\* C22: whenever set calls lruQueue.push(key), the LRUQueue does not track key
\* at that moment: no key is pushed twice without a delete in between.
C22_PushOnlyUntrackedKeys ==
    (lastOp.op = "set" /\ ~lastOp.threw /\ lastOp.arg > 0) => ~lastOp.tracked

\* the keys whose stored item was in the Map handed to the constructor
PreexistingKeys == {cache[i].key : i \in {j \in DOMAIN cache : cache[j].item.storageTimestamp = 0}}

\* C23: a cache constructed over a Map that holds items tracks every one of
\* their keys in the LRUQueue from construction on (Map and LRUQueue hold the
\* same keys initially), and a set that finds the store full under 'lru'
\* evicts, returns normally and leaves the size within maximalItemCount.
C23_PreexistingKeysTracked ==
    [][SetStored =>
        /\ \A key \in PreexistingKeys : QueueTracks(lruQueue, key)
        /\ lastOp.op = "new" => QueueKeys(lruQueue) = MapKeys(cache)
        /\ (/\ options.evictExceedingItemsBy = "lru"
            /\ Len(cache) >= options.maximalItemCount) =>
                /\ ~lastOp'.threw
                /\ lastOp'.removed # <<>>
                /\ Len(cache') <= options.maximalItemCount]_vars

====
